---------------------------- MODULE Spec2Model ----------------------------
(***************************************************************************)
(* NoteX (src/main.py): text extraction, section splitting, adaptive       *)
(* summarisation and question answering behind a Streamlit page.           *)
(*                                                                         *)
(* A Python str is modelled as a sequence of one-character strings, so     *)
(* that re.split, str.strip, str.split, slicing and str.join are computed  *)
(* character by character, as the interpreter computes them.               *)
(***************************************************************************)
EXTENDS Integers, Sequences, FiniteSets, TLC

VARIABLES
    \* ---- summarize_by_sections (src/main.py:67-87) ----
    text,            \* the argument; in the page, the module-level `text` (line 99)
    sections,        \* result of re.split (line 68)
    i,               \* enumerate index of the next section to process
    summaries,       \* the dict `summaries`, in insertion order: <<[label, value]>>
    calls,           \* invocations of `summarizer` so far, each with its arguments
                     \* and what the capability answered
    loc,             \* locals of the last loop iteration
    pc,              \* "split" | "loop" | "done"; "idle" when the function is not running
    \* ---- the page (src/main.py:97-152), one script run per user action ----
    uploaded_pdf,    \* widget value, line 102
    uploaded_docx,   \* widget value, line 108
    youtube_link,    \* widget value, line 114
    website_url,     \* widget value, line 120
    session_state,   \* st.session_state, a dict as a set of <<key, value>>
    extracted,       \* what the adapters called in this run returned, in call order
    aborted,         \* an exception left the script in this run
    shown,           \* messages rendered by this run
    qa_call,         \* the invocation of qa_pipeline in this run, or NoCall
    qa_rendered,     \* the "Ask a Doubt" form was rendered by this run (line 144)
    set_order,       \* history: the populated inputs, in the order the user set them
    last_action      \* history: the user action that caused this run

sumVars == <<sections, i, summaries, calls, loc, pc>>
pageVars == <<uploaded_pdf, uploaded_docx, youtube_link, website_url, session_state,
              extracted, aborted, shown, qa_call, qa_rendered, set_order, last_action>>
vars == <<text, sumVars, pageVars>>

-----------------------------------------------------------------------------
(* Characters and strings *)

NL == "\n"
SP == " "
TAB == "\t"

IsSpace(c) == c \in {SP, NL, TAB}
IsDigit(c) == c \in {"0", "1", "2", "3", "4", "5", "6", "7", "8", "9"}

Chapter == <<"C", "h", "a", "p", "t", "e", "r">>
SectionWord == <<"S", "e", "c", "t", "i", "o", "n">>

Min(a, b) == IF a <= b THEN a ELSE b
Max(a, b) == IF a >= b THEN a ELSE b

\* sep.join(parts)
RECURSIVE Join(_, _)
Join(parts, sep) ==
    IF Len(parts) = 0 THEN <<>>
    ELSE IF Len(parts) = 1 THEN parts[1]
    ELSE parts[1] \o sep \o Join(Tail(parts), sep)

-----------------------------------------------------------------------------
(* re.split(r'\n(?=\d+\.\s|Chapter\s+\d+|Section\s+\d+)', text), line 68 *)

\* \d+\.\s matches at position j
NumberedAt(s, j) ==
    \E k \in j..(Len(s) - 2) :
        /\ \A m \in j..k : IsDigit(s[m])
        /\ s[k + 1] = "."
        /\ IsSpace(s[k + 2])

\* <word>\s+\d+ matches at position j
KeywordAt(s, j, word) ==
    /\ j + Len(word) - 1 <= Len(s)
    /\ SubSeq(s, j, j + Len(word) - 1) = word
    /\ \E k \in (j + Len(word))..(Len(s) - 1) :
        /\ \A m \in (j + Len(word))..k : IsSpace(s[m])
        /\ IsDigit(s[k + 1])

\* the lookahead (?=...) succeeds at position j
HeadingAt(s, j) ==
    \/ NumberedAt(s, j)
    \/ KeywordAt(s, j, Chapter)
    \/ KeywordAt(s, j, SectionWord)

\* the whole pattern matches the single character at position p
MatchAt(s, p) == s[p] = NL /\ HeadingAt(s, p + 1)

Matches(s) == {p \in 1..Len(s) : MatchAt(s, p)}

\* the k-th match position, in text order
NthMatch(s, k) ==
    LET M == Matches(s)
    IN CHOOSE p \in M : Cardinality({q \in M : q < p}) = k - 1

\* a split that leaves the matched "\n" at the head of the following piece
ReSplitKeepNewline(s) ==
    LET n == Cardinality(Matches(s))
        from(k) == IF k = 1 THEN 1 ELSE NthMatch(s, k - 1)
        to(k) == IF k = n + 1 THEN Len(s) ELSE NthMatch(s, k) - 1
    IN [k \in 1..(n + 1) |-> SubSeq(s, from(k), to(k))]

\* re.split: the pieces between consecutive matches, the matched "\n" dropped
ReSplit(s) ==
    LET n == Cardinality(Matches(s))
        from(k) == IF k = 1 THEN 1 ELSE NthMatch(s, k - 1) + 1
        to(k) == IF k = n + 1 THEN Len(s) ELSE NthMatch(s, k) - 1
    IN [k \in 1..(n + 1) |-> SubSeq(s, from(k), to(k))]

-----------------------------------------------------------------------------
(* str methods used by summarize_by_sections *)

\* s.strip()
Strip(s) ==
    IF \A k \in 1..Len(s) : IsSpace(s[k]) THEN <<>>
    ELSE LET first == CHOOSE k \in 1..Len(s) :
                          ~IsSpace(s[k]) /\ \A m \in 1..(k - 1) : IsSpace(s[m])
             last == CHOOSE k \in 1..Len(s) :
                          ~IsSpace(s[k]) /\ \A m \in (k + 1)..Len(s) : IsSpace(s[m])
         IN SubSeq(s, first, last)

\* len(s.split()): the maximal runs of non-whitespace characters
WordCount(s) ==
    Cardinality({k \in 1..Len(s) : ~IsSpace(s[k]) /\ (k = 1 \/ IsSpace(s[k - 1]))})

\* s[:n]
Slice(s, n) == SubSeq(s, 1, Min(n, Len(s)))

DigitChar == <<"0", "1", "2", "3", "4", "5", "6", "7", "8", "9">>

\* str(n) for n >= 0
RECURSIVE Str(_)
Str(n) == IF n < 10 THEN <<DigitChar[n + 1]>>
          ELSE Str(n \div 10) \o <<DigitChar[(n % 10) + 1]>>

\* f"Section {i}": the enumerate index itself
LabelZeroBased(idx) == SectionWord \o <<SP>> \o Str(idx)

\* f"Section {i+1}", lines 82, 84, 86
Label(idx) == SectionWord \o <<SP>> \o Str(idx + 1)

\* "Section too short to summarize.", line 86
TooShort ==
    SectionWord \o <<SP, "t", "o", "o", SP, "s", "h", "o", "r", "t", SP, "t", "o", SP,
                     "s", "u", "m", "m", "a", "r", "i", "z", "e", ".">>

\* the prefix of f"Error: {str(e)}", lines 64, 84, 94
ErrorPrefix == <<"E", "r", "r", "o", "r", ":", SP>>

-----------------------------------------------------------------------------
(* The length budget, lines 74-80 *)

MinWords == 20        \* if word_count > 20
MaxChars == 1000      \* sec[:1000]
MaxLenCap == 150      \* min(150, ...)
MaxLenFloor == 13     \* max(13, ...)
MinLenFloor == 10     \* max(10, ...)

\* round(word_count * 0.5), halves up
HalfRound(n) == (n + 1) \div 2

\* int(word_count * 0.5): the product is exact in binary floating point and
\* int() truncates towards zero
HalfTrunc(n) == (n * 5) \div 10

\* int(max_len * 0.6): truncation of the double product; equal to the exact
\* floor of 6n/10 for every n the clamp of line 76 can produce (13..150)
SixTenthsTrunc(n) == (n * 6) \div 10

\* line 76
MaxLen(word_count) == Min(MaxLenCap, Max(MaxLenFloor, HalfTrunc(word_count)))

\* line 77
MinLen(max_len) == Max(MinLenFloor, SixTenthsTrunc(max_len))

\* line 79
AdjustedMax(max_len, short_text) == Min(max_len, WordCount(short_text))

\* min(min_len, adjusted_max): no room left below the maximum
AdjustedMinNoGap(min_len, adjusted_max) ==
    IF adjusted_max > 1 THEN Min(min_len, adjusted_max) ELSE 1

\* line 80
AdjustedMin(min_len, adjusted_max) ==
    IF adjusted_max > 1 THEN Min(min_len, adjusted_max - 1) ELSE 1

-----------------------------------------------------------------------------
(* The summarization capability: opaque; it returns some text or raises *)

SummaryTexts == {<<"s", "1">>, <<"s", "2">>}
FailureTexts == {<<"b", "a", "d">>}

SummarizerOutcomes ==
    [ok : {TRUE}, out : SummaryTexts] \cup [ok : {FALSE}, out : FailureTexts]

\* summaries[label] = value on an insertion-ordered dict
DictSet(d, label, value) ==
    IF \E k \in 1..Len(d) : d[k].label = label
    THEN [k \in 1..Len(d) |->
             IF d[k].label = label THEN [label |-> label, value |-> value] ELSE d[k]]
    ELSE Append(d, [label |-> label, value |-> value])

None == <<"None">>

\* word_count >= 20
ShouldSummarizeFrom20(word_count) == word_count >= MinWords

\* line 74
ShouldSummarize(word_count) == word_count > MinWords

\* the failure recorded without its description
RecordedWithoutDescription(outcome) ==
    IF outcome.ok THEN outcome.out ELSE ErrorPrefix

\* lines 82 and 84: what is stored for a section whose capability call ended
Recorded(outcome) ==
    IF outcome.ok THEN outcome.out ELSE ErrorPrefix \o outcome.out

\* One iteration of the for loop of lines 71-86 on section number idx (0-based),
\* the capability answering `outcome` if it is called.
LoopBody(st, raw, idx, outcome) ==
    LET sec == Strip(raw)
        word_count == WordCount(sec)
        short_text == Slice(sec, MaxChars)
        max_len == MaxLen(word_count)
        min_len == MinLen(max_len)
        adjusted_max == AdjustedMax(max_len, short_text)
        adjusted_min == AdjustedMin(min_len, adjusted_max)
    IN IF ShouldSummarize(word_count)
       THEN [summaries |-> DictSet(st.summaries, Label(idx), Recorded(outcome)),
             calls |-> Append(st.calls,
                              [idx |-> idx, text |-> short_text,
                               max_length |-> adjusted_max, min_length |-> adjusted_min,
                               outcome |-> outcome]),
             loc |-> [sec |-> sec, word_count |-> word_count, short_text |-> short_text,
                      max_len |-> max_len, min_len |-> min_len,
                      adjusted_max |-> adjusted_max, adjusted_min |-> adjusted_min]]
       ELSE [summaries |-> DictSet(st.summaries, Label(idx), TooShort),
             calls |-> st.calls,
             loc |-> [st.loc EXCEPT !.sec = sec, !.word_count = word_count]]

NoLocals == [sec |-> None, word_count |-> -1, short_text |-> None, max_len |-> -1,
             min_len |-> -1, adjusted_max |-> -1, adjusted_min |-> -1]

\* summarize_by_sections(text) as a whole, the capability answering oracle[k]
\* on the k-th section
RECURSIVE RunLoop(_, _, _, _)
RunLoop(st, secs, idx, oracle) ==
    IF idx >= Len(secs) THEN st
    ELSE RunLoop(LoopBody(st, secs[idx + 1], idx, oracle[idx + 1]), secs, idx + 1, oracle)

SummarizeBySections(t, oracle) ==
    RunLoop([summaries |-> <<>>, calls |-> <<>>, loc |-> NoLocals], ReSplit(t), 0, oracle)

-----------------------------------------------------------------------------
(* summarize_by_sections, statement by statement *)

\* line 68-69
SplitStep ==
    /\ pc = "split"
    /\ sections' = ReSplit(text)
    /\ summaries' = <<>>
    /\ i' = 0
    /\ pc' = "loop"
    /\ UNCHANGED <<text, calls, loc, pageVars>>

\* lines 71-73 and 85-86: a section of at most 20 words
LoopSkip ==
    /\ pc = "loop"
    /\ i < Len(sections)
    /\ ~ShouldSummarize(WordCount(Strip(sections[i + 1])))
    /\ LET r == LoopBody([summaries |-> summaries, calls |-> calls, loc |-> loc],
                         sections[i + 1], i, [ok |-> TRUE, out |-> <<>>])
       IN /\ summaries' = r.summaries
          /\ calls' = r.calls
          /\ loc' = r.loc
    /\ i' = i + 1
    /\ UNCHANGED <<text, sections, pc, pageVars>>

\* lines 71-84: a section of more than 20 words, the capability returning or raising
LoopCall ==
    /\ pc = "loop"
    /\ i < Len(sections)
    /\ ShouldSummarize(WordCount(Strip(sections[i + 1])))
    /\ \E outcome \in SummarizerOutcomes :
        LET r == LoopBody([summaries |-> summaries, calls |-> calls, loc |-> loc],
                          sections[i + 1], i, outcome)
        IN /\ summaries' = r.summaries
           /\ calls' = r.calls
           /\ loc' = r.loc
    /\ i' = i + 1
    /\ UNCHANGED <<text, sections, pc, pageVars>>

\* line 87
Return ==
    /\ pc = "loop"
    /\ i >= Len(sections)
    /\ pc' = "done"
    /\ UNCHANGED <<text, sections, i, summaries, calls, loc, pageVars>>

-----------------------------------------------------------------------------
(* Extraction adapters, lines 35-64.  The parsers and the network are outside
   the program: a file is what its parser yields, a fetch is what the network
   answers this time. *)

\* n one-letter words of the letter c
Letters(c, n) == [k \in 1..(2 * n - 1) |-> IF k % 2 = 1 THEN c ELSE SP]

\* an uploader's value: None (present = FALSE) or a file, which its parser
\* reads as a list of page or paragraph texts, or rejects (corrupt)
NoFile == [present |-> FALSE, corrupt |-> FALSE, items |-> <<>>]
GoodPdf == [present |-> TRUE, corrupt |-> FALSE,
            items |-> <<Letters("p", 11), <<>>, Letters("p", 11)>>]
CorruptPdf == [present |-> TRUE, corrupt |-> TRUE, items |-> <<>>]
GoodDocx == [present |-> TRUE, corrupt |-> FALSE,
             items |-> <<Letters("d", 3),
                         SectionWord \o <<SP, "2", SP>> \o Letters("d", MinWords + 1)>>]
CorruptDocx == [present |-> TRUE, corrupt |-> TRUE, items |-> <<>>]

PdfFiles == {GoodPdf, CorruptPdf}
DocxFiles == {GoodDocx, CorruptDocx}
Url == <<"u">>
Question == <<"q", "?">>

TranscriptOutcomes ==
    [ok : {TRUE}, items : {<<Letters("y", 10), Letters("y", 11)>>}]
    \cup [ok : {FALSE}, items : FailureTexts]
PageOutcomes ==
    [ok : {TRUE}, items : {<<Letters("w", MinWords + 1), <<SP, SP>>>>, <<>>}]
    \cup [ok : {FALSE}, items : FailureTexts]
AnswerOutcomes ==
    [ok : {TRUE}, out : {<<"a">>}] \cup [ok : {FALSE}, out : FailureTexts]

\* text += page_text for every page whose text is truthy, lines 36-42
RECURSIVE ConcatTruthy(_)
ConcatTruthy(pages) ==
    IF Len(pages) = 0 THEN <<>>
    ELSE (IF Len(pages[1]) > 0 THEN pages[1] ELSE <<>>) \o ConcatTruthy(Tail(pages))

\* seq without the elements equal to x
RECURSIVE Without(_, _)
Without(seq, x) ==
    IF Len(seq) = 0 THEN <<>>
    ELSE (IF seq[1] = x THEN <<>> ELSE <<seq[1]>>) \o Without(Tail(seq), x)

Returned(v) == [raised |-> FALSE, value |-> v]
Raised == [raised |-> TRUE, value |-> <<>>]

\* lines 35-42: no try/except, pdfplumber's exception leaves the function
extract_text_from_pdf(file) ==
    IF file.corrupt THEN Raised ELSE Returned(ConcatTruthy(file.items))

\* lines 44-47: no try/except, python-docx's exception leaves the function
extract_text_from_docx(file) ==
    IF file.corrupt THEN Raised ELSE Returned(Join(file.items, <<NL>>))

ErrorRetrieving ==
    <<"E", "r", "r", "o", "r", SP, "r", "e", "t", "r", "i", "e", "v", "i", "n", "g", SP,
      "t", "r", "a", "n", "s", "c", "r", "i", "p", "t", ":", SP>>

\* lines 49-55
get_youtube_transcript(fetch) ==
    IF fetch.ok THEN Returned(Join(fetch.items, <<SP>>))
    ELSE Returned(ErrorRetrieving \o fetch.items)

\* [p.get_text() for p in paragraphs if p.get_text().strip()], line 62
RECURSIVE NonBlank(_)
NonBlank(seq) ==
    IF Len(seq) = 0 THEN <<>>
    ELSE (IF Len(Strip(seq[1])) > 0 THEN <<seq[1]>> ELSE <<>>) \o NonBlank(Tail(seq))

\* lines 57-64
extract_text_from_url(fetch) ==
    IF fetch.ok THEN Returned(Join(NonBlank(fetch.items), <<NL>>))
    ELSE Returned(ErrorPrefix \o fetch.items)

\* lines 89-94
answer_question(outcome) ==
    IF outcome.ok THEN outcome.out ELSE ErrorPrefix \o outcome.out

-----------------------------------------------------------------------------
(* The script, lines 97-152: Streamlit runs it top to bottom after every user
   action, with the widgets' current values. *)

\* the tabs read in the opposite order
TabOrderReversed == <<"website", "youtube", "docx", "pdf">>

\* the tabs in script order, lines 101-123
TabOrder == <<"pdf", "docx", "youtube", "website">>

Populated(pdf, docx, yt, web, tab) ==
    CASE tab = "pdf" -> pdf.present
      [] tab = "docx" -> docx.present
      [] tab = "youtube" -> Len(yt) > 0
      [] tab = "website" -> Len(web) > 0

CallAdapter(pdf, docx, tab, ytFetch, webFetch) ==
    CASE tab = "pdf" -> extract_text_from_pdf(pdf)
      [] tab = "docx" -> extract_text_from_docx(docx)
      [] tab = "youtube" -> get_youtube_transcript(ytFetch)
      [] tab = "website" -> extract_text_from_url(webFetch)

\* lines 99-123 from tab number k on: each populated input's adapter is called
\* and its result assigned to `text`; an exception ends the run
RECURSIVE Extract(_, _, _, _, _, _, _, _)
Extract(acc, k, pdf, docx, yt, web, ytFetch, webFetch) ==
    IF k > Len(TabOrder) \/ acc.aborted THEN acc
    ELSE IF ~Populated(pdf, docx, yt, web, TabOrder[k])
    THEN Extract(acc, k + 1, pdf, docx, yt, web, ytFetch, webFetch)
    ELSE LET r == CallAdapter(pdf, docx, TabOrder[k], ytFetch, webFetch)
         IN Extract(IF r.raised
                    THEN [acc EXCEPT !.aborted = TRUE]
                    ELSE [text |-> r.value,
                          extracted |-> Append(acc.extracted,
                                               [tab |-> TabOrder[k], value |-> r.value]),
                          shown |-> acc.shown \cup {<<"success", TabOrder[k]>>},
                          aborted |-> FALSE],
                    k + 1, pdf, docx, yt, web, ytFetch, webFetch)

KeyIn(d, key) == \E e \in d : e[1] = key
\* d[key]; a missing key raises KeyError, which line 144 rules out for line 149
DictGet(d, key) == IF KeyIn(d, key) THEN (CHOOSE e \in d : e[1] = key)[2] ELSE None
DictPut(d, key, value) == {e \in d : e[1] # key} \cup {<<key, value>>}

Values(d) == [k \in 1..Len(d) |-> d[k].value]

\* the new values appended to the context of the run before
NewContextMerged(old, section_summaries) ==
    IF KeyIn(old, "summary")
    THEN DictGet(old, "summary") \o <<SP>> \o Join(Values(section_summaries), <<SP>>)
    ELSE Join(Values(section_summaries), <<SP>>)

\* line 139
NewContext(old, section_summaries) == Join(Values(section_summaries), <<SP>>)

\* the question form rendered whether or not a summary exists
QaVisibleAlways(ss) == TRUE

NoCall == [context |-> None, question |-> None, answer |-> None]

\* line 144
QaVisible(ss) == KeyIn(ss, "summary")

\* One run of the script with the widget values already primed:
\* summarize, ask: which button the user pressed (at most one per run);
\* q: the value of the question input.
Rerun(summarize, ask, q) ==
    \E ytFetch \in (IF Len(youtube_link') > 0 THEN TranscriptOutcomes
                    ELSE {[ok |-> TRUE, items |-> <<>>]}),
       webFetch \in (IF Len(website_url') > 0 THEN PageOutcomes
                     ELSE {[ok |-> TRUE, items |-> <<>>]}) :
      \E x \in {Extract([text |-> <<>>, extracted |-> <<>>, shown |-> {}, aborted |-> FALSE],
                        1, uploaded_pdf', uploaded_docx', youtube_link', website_url',
                        ytFetch, webFetch)} :
        \E run \in {summarize /\ ~x.aborted /\ Len(x.text) > 0} :
          \E secs \in {IF run THEN ReSplit(x.text) ELSE <<>>} :
            \E oracle \in [1..Len(secs) -> SummarizerOutcomes] :
              \E r \in {IF run THEN SummarizeBySections(x.text, oracle)
                         ELSE [summaries |-> <<>>, calls |-> <<>>, loc |-> NoLocals]} :
                \E ss \in {IF run
                           THEN DictPut(session_state, "summary",
                                        NewContext(session_state, r.summaries))
                           ELSE session_state} :
                  \E form \in {~x.aborted /\ QaVisible(ss)} :
                    \E asked \in {form /\ ask /\ Len(q) > 0} :
                      \E qa \in (IF asked THEN AnswerOutcomes
                                 ELSE {[ok |-> TRUE, out |-> <<>>]}) :
                        /\ text' = x.text
                        /\ extracted' = x.extracted
                        /\ aborted' = x.aborted
                        /\ sections' = secs
                        /\ i' = Len(secs)
                        /\ summaries' = r.summaries
                        /\ calls' = r.calls
                        /\ loc' = r.loc
                        /\ pc' = IF run THEN "done" ELSE "idle"
                        /\ session_state' = ss
                        /\ qa_rendered' = form
                        /\ qa_call' = IF asked
                                      THEN [context |-> DictGet(ss, "summary"),
                                            question |-> q,
                                            answer |-> answer_question(qa)]
                                      ELSE NoCall
                        /\ shown' = x.shown
                              \cup (IF summarize /\ ~x.aborted /\ Len(x.text) = 0
                                    THEN {<<"error",
                                            "Please upload or paste something first!">>}
                                    ELSE {})
                              \cup (IF asked THEN {<<"success", "Answer">>} ELSE {})
                              \cup (IF form /\ ask /\ Len(q) = 0
                                    THEN {<<"warning", "Please type your question.">>}
                                    ELSE {})

\* set_order after the user sets input `tab` to a value that is (not) empty
Reorder(order, tab, populated) ==
    LET rest == Without(order, tab)
    IN IF populated THEN Append(rest, tab) ELSE rest

\* the user uploads or removes a PDF, lines 102-105
SetPdf ==
    /\ \E f \in PdfFiles \cup {NoFile} :
        /\ f # uploaded_pdf
        /\ uploaded_pdf' = f
        /\ set_order' = Reorder(set_order, "pdf", f.present)
    /\ UNCHANGED <<uploaded_docx, youtube_link, website_url>>
    /\ last_action' = "input"
    /\ Rerun(FALSE, FALSE, <<>>)

\* the user uploads or removes a Word document, lines 108-111
SetDocx ==
    /\ \E f \in DocxFiles \cup {NoFile} :
        /\ f # uploaded_docx
        /\ uploaded_docx' = f
        /\ set_order' = Reorder(set_order, "docx", f.present)
    /\ UNCHANGED <<uploaded_pdf, youtube_link, website_url>>
    /\ last_action' = "input"
    /\ Rerun(FALSE, FALSE, <<>>)

\* the user enters or clears the YouTube link, lines 114-117
SetYoutube ==
    /\ \E u \in {Url, <<>>} :
        /\ u # youtube_link
        /\ youtube_link' = u
        /\ set_order' = Reorder(set_order, "youtube", Len(u) > 0)
    /\ UNCHANGED <<uploaded_pdf, uploaded_docx, website_url>>
    /\ last_action' = "input"
    /\ Rerun(FALSE, FALSE, <<>>)

\* the user enters or clears the website link, lines 120-123
SetWebsite ==
    /\ \E u \in {Url, <<>>} :
        /\ u # website_url
        /\ website_url' = u
        /\ set_order' = Reorder(set_order, "website", Len(u) > 0)
    /\ UNCHANGED <<uploaded_pdf, uploaded_docx, youtube_link>>
    /\ last_action' = "input"
    /\ Rerun(FALSE, FALSE, <<>>)

\* the user presses Summarize, lines 131-141
PressSummarize ==
    /\ UNCHANGED <<uploaded_pdf, uploaded_docx, youtube_link, website_url, set_order>>
    /\ last_action' = "summarize"
    /\ Rerun(TRUE, FALSE, <<>>)

\* the user presses Get Answer in the form the last run rendered, lines 144-152
PressGetAnswer ==
    /\ qa_rendered
    /\ UNCHANGED <<uploaded_pdf, uploaded_docx, youtube_link, website_url, set_order>>
    /\ last_action' = "answer"
    /\ \E q \in {Question, <<>>} : Rerun(FALSE, TRUE, q)

\* the user wants to ask while the last run rendered no form (line 144 was
\* false, or the run had ended before it): there is nothing to type into or to
\* press, and no code runs
AskWithoutForm ==
    /\ ~qa_rendered
    /\ last_action' = "ask_denied"
    /\ UNCHANGED <<text, sumVars, uploaded_pdf, uploaded_docx, youtube_link, website_url,
                   session_state, extracted, aborted, shown, qa_call, qa_rendered,
                   set_order>>

\* the session's first script run: no input set, no button pressed
PageStart ==
    /\ uploaded_pdf = NoFile
    /\ uploaded_docx = NoFile
    /\ youtube_link = <<>>
    /\ website_url = <<>>
    /\ session_state = {}
    /\ extracted = <<>>
    /\ aborted = FALSE
    /\ shown = {}
    /\ qa_call = NoCall
    /\ qa_rendered = FALSE
    /\ set_order = <<>>
    /\ last_action = "start"

-----------------------------------------------------------------------------
(* Input texts *)

MaxPieces == 4
MaxWords == 310
LongWord == 9
MaxLines == 4
LongBody == 25

\* n words of "x": the first of f characters, the others of w, one space between
Words(n, w, f) ==
    IF n = 0 THEN <<>>
    ELSE [k \in 1..(f + (n - 1) * (w + 1)) |->
             IF k > f /\ (k - f - 1) % (w + 1) = 0 THEN SP ELSE "x"]

\* pieces that headings, near-headings and plain text are made of
SplitPieces ==
    {<<NL>>, <<SP>>, <<"1">>, <<".">>, <<"x">>, Chapter, SectionWord,
     <<NL, "2", ".", TAB>>, <<NL>> \o SectionWord \o <<SP, "3">>}

RECURSIVE TextsUpTo(_)
TextsUpTo(n) ==
    IF n = 0 THEN {<<>>}
    ELSE LET T == TextsUpTo(n - 1) IN T \cup {t \o q : t \in T, q \in SplitPieces}

SplitTexts == TextsUpTo(MaxPieces)

\* one-section texts over the range of word counts, and texts whose long words
\* make the 1000-character cut fall inside the first few words
LenTexts ==
    {Words(n, 1, 1) : n \in 0..MaxWords}
    \cup {pad \o Words(n, LongWord, f) \o pad :
             n \in {MinWords + 1, 201, 2 * MaxLenCap + 1},
             f \in {1, MaxChars - 2, MaxChars - 1, MaxChars, MaxChars + 1},
             pad \in {<<>>, <<SP, NL>>}}

\* the lines a document is made of: an empty line, a "Section N" heading with a
\* long body, and a "Chapter N" and a numbered heading whose lines have exactly
\* 20 and 21 words (at the start of the text they are plain text)
LineKinds ==
    {<<>>,
     SectionWord \o <<SP, "1", SP>> \o Words(LongBody, 1, 1),
     Chapter \o <<SP, "2", SP>> \o Words(MinWords - 2, 1, 1),
     <<"3", ".", SP>> \o Words(MinWords, 1, 1)}

LinesTexts ==
    {Join(ls, <<NL>>) : ls \in UNION {[1..m -> LineKinds] : m \in 1..MaxLines}}

InitWith(texts) ==
    /\ text \in texts
    /\ sections = <<>>
    /\ i = 0
    /\ summaries = <<>>
    /\ calls = <<>>
    /\ loc = NoLocals
    /\ pc = "split"
    /\ PageStart

InitSplit == InitWith(SplitTexts)
InitLen == InitWith(LenTexts)
InitSum == InitWith(LinesTexts)

NextSplit == SplitStep
NextSum == SplitStep \/ LoopSkip \/ LoopCall \/ Return

Init ==
    /\ text = <<>>
    /\ sections = <<>>
    /\ i = 0
    /\ summaries = <<>>
    /\ calls = <<>>
    /\ loc = NoLocals
    /\ pc = "idle"
    /\ PageStart

Next ==
    \/ SetPdf
    \/ SetDocx
    \/ SetYoutube
    \/ SetWebsite
    \/ PressSummarize
    \/ PressGetAnswer
    \/ AskWithoutForm

Spec == Init /\ [][Next]_vars
SpecSplit == InitSplit /\ [][NextSplit]_vars
SpecLen == InitLen /\ [][NextSum]_vars
SpecSum == InitSum /\ [][NextSum]_vars

-----------------------------------------------------------------------------
(* Properties of summarize_by_sections *)

\* the trimmed text of section number idx (0-based) and its number of words
Trimmed(idx) == Strip(sections[idx + 1])
WordsIn(idx) == WordCount(Trimmed(idx))

\* the values stored under "Section <idx+1>", the label written out digit by digit
LabelText(idx) ==
    <<"S", "e", "c", "t", "i", "o", "n", " ">>
        \o (IF idx + 1 < 10 THEN <<DigitChar[idx + 2]>>
            ELSE <<DigitChar[((idx + 1) \div 10) + 1], DigitChar[((idx + 1) % 10) + 1]>>)
StoredFor(idx) == {summaries[k].value : k \in {m \in 1..Len(summaries) :
                                                  summaries[m].label = LabelText(idx)}}
CallsFor(idx) == {k \in 1..Len(calls) : calls[k].idx = idx}

\* C1: every call of the summarization capability is made for a section of more
\* than 20 words, on the first 1000 characters of the trimmed section, with
\* 1 <= min_length < max_length <= min(150, number of words of those characters),
\* or with max_length = min_length = 1.
C1_LengthBounds ==
    \A k \in 1..Len(calls) :
        LET c == calls[k]
            shortText == SubSeq(Trimmed(c.idx), 1, Min(1000, Len(Trimmed(c.idx))))
            tokens == WordCount(shortText)
        IN /\ WordsIn(c.idx) > 20
           /\ c.text = shortText
           /\ \/ /\ 1 <= c.min_length
                 /\ c.min_length < c.max_length
                 /\ c.max_length <= Min(150, tokens)
              \/ c.max_length = 1 /\ c.min_length = 1

\* a call whose max_length is the number of words left by the 1000-character cut,
\* below the budget of line 76, and whose min_length had to give way
C1_Witness ==
    /\ pc = "done"
    /\ Len(calls) = 1
    /\ Len(Trimmed(0)) > 1000
    /\ calls[1].max_length = WordCount(calls[1].text)
    /\ calls[1].max_length = 2
    /\ calls[1].min_length = 1
    /\ loc.max_len = 150

\* rounding to the nearest integer, halves up
RoundDiv(num, den) == (2 * num + den) \div (2 * den)

\* C9 as stated: for every section of more than 20 words the budget before the
\* re-clamp is max_len = clamp(round(word_count * 0.5), 13, 150) and
\* min_len = max(10, round(max_len * 0.6)), round being to the nearest integer.
C9_RoundedBudget ==
    (pc = "done" /\ Len(calls) = 1)
        => /\ loc.max_len = Min(150, Max(13, RoundDiv(WordsIn(0), 2)))
           /\ loc.min_len = Max(10, RoundDiv(loc.max_len * 6, 10))

\* C9 amended: the budget is computed with truncation, not rounding:
\* max_len = clamp(floor(word_count / 2), 13, 150) and
\* min_len = max(10, floor(max_len * 6 / 10)).
C9_TruncatedBudget ==
    (pc = "done" /\ Len(calls) = 1)
        => /\ loc.word_count = WordsIn(0)
           /\ loc.max_len = Min(150, Max(13, WordsIn(0) \div 2))
           /\ loc.min_len = Max(10, (loc.max_len * 6) \div 10)

\* a section of 37 words: half is 18.5, the budget is 18 and not 19, and 0.6 of
\* it is 10.8, the minimum is 10 and not 11
C9_Witness ==
    /\ pc = "done"
    /\ Len(calls) = 1
    /\ loc.word_count = 37
    /\ loc.max_len = 18
    /\ loc.min_len = 10

\* C2: every processed section of at most 20 words (an empty one included) has
\* the fixed placeholder under its label and no capability call, and the number
\* of calls is the number of processed sections of more than 20 words.
C2_ShortSectionsSkipped ==
    pc \in {"loop", "done"} =>
        /\ \A idx \in 0..(i - 1) :
              WordsIn(idx) <= 20 =>
                  /\ StoredFor(idx) = {TooShort}
                  /\ CallsFor(idx) = {}
        /\ Len(calls) = Cardinality({idx \in 0..(i - 1) : WordsIn(idx) > 20})

\* a finished run with an empty section, a section of exactly 20 words and a
\* section that was summarized
C2_Witness ==
    /\ pc = "done"
    /\ \E a, b, c \in 0..(Len(sections) - 1) :
        /\ WordsIn(a) = 0
        /\ WordsIn(b) = 20
        /\ WordsIn(c) > 20
    /\ Len(calls) = 1

\* C3: whatever the capability answers, the function returns with one entry per
\* section, in order; a section of more than 20 words is called exactly once and
\* holds the returned summary, or "Error: " and the failure's description when
\* the call raised; a failure changes nothing for the sections after it.
C3_FailureIsLocal ==
    /\ pc \in {"split", "loop", "done"}
    /\ pc = "loop" => i <= Len(sections) /\ Len(summaries) = i
    /\ pc = "done" =>
        /\ i = Len(sections)
        /\ Len(summaries) = Len(sections)
        /\ \A idx \in 0..(Len(sections) - 1) :
              /\ summaries[idx + 1].label = LabelText(idx)
              /\ WordsIn(idx) > 20 =>
                    /\ Cardinality(CallsFor(idx)) = 1
                    /\ \A k \in CallsFor(idx) :
                          summaries[idx + 1].value =
                              IF calls[k].outcome.ok THEN calls[k].outcome.out
                              ELSE <<"E", "r", "r", "o", "r", ":", " ">>
                                       \o calls[k].outcome.out

\* three sections of more than 20 words, the capability raising on the second
\* only
C3_Witness ==
    /\ pc = "done"
    /\ Len(sections) = 3
    /\ Len(calls) = 3
    /\ calls[1].outcome.ok
    /\ ~calls[2].outcome.ok
    /\ calls[3].outcome.ok
    /\ summaries[2].value = <<"E", "r", "r", "o", "r", ":", " ", "b", "a", "d">>
    /\ summaries[3].value \in SummaryTexts

\* positions where a line starts with a heading: the start of the text counts
LineStartHeadings(s) ==
    {q \in 1..Len(s) : (q = 1 \/ s[q - 1] = NL) /\ HeadingAt(s, q)}
LineStartSections(s) ==
    {q \in LineStartHeadings(s) : KeywordAt(s, q, SectionWord)}
\* positions of the headings that follow a newline
NewlineHeadings(s) == {q \in 2..Len(s) : s[q - 1] = NL /\ HeadingAt(s, q)}
\* the words from the heading at q up to the next line-start heading
BodyWords(s, q) ==
    LET later == {n \in LineStartHeadings(s) : n > q}
        stop == IF later = {} THEN Len(s)
                ELSE (CHOOSE n \in later : \A m \in later : n <= m) - 2
    IN WordCount(SubSeq(s, q, stop)) - 2

AllCallsSucceeded == \A k \in 1..Len(calls) : calls[k].outcome.ok

\* C8 as stated: a text with exactly 3 line-start "Section N" headings, each
\* with a body of at least 25 words, gives (the capability succeeding) exactly
\* the entries "Section 1" .. "Section 4", each a real summary.
C8_FourSummaries ==
    ( /\ pc = "done"
      /\ Cardinality(LineStartHeadings(text)) = 3
      /\ LineStartSections(text) = LineStartHeadings(text)
      /\ \A q \in LineStartHeadings(text) : BodyWords(text, q) >= 25
      /\ AllCallsSucceeded )
        => /\ Len(summaries) = 4
           /\ \A k \in 1..4 : /\ summaries[k].label = LabelText(k - 1)
                              /\ summaries[k].value \in SummaryTexts

\* C8 amended: the number of entries is one more than the number of headings
\* that follow a newline (a heading at the very start of the text starts no new
\* section); the labels are "Section 1", "Section 2", ... in order; with exactly
\* 3 such headings there are exactly 4 entries; an entry is a summary exactly
\* when its section has more than 20 words and its call succeeded, and the
\* placeholder when its section (such as the text before the first heading) has
\* at most 20 words.
C8_EntriesPerNewlineHeading ==
    pc = "done" =>
        /\ Len(summaries) = Cardinality(NewlineHeadings(text)) + 1
        /\ \A k \in 1..Len(summaries) : summaries[k].label = LabelText(k - 1)
        /\ \A k \in 1..Len(summaries) :
              \A m \in 1..Len(summaries) : k < m => summaries[k].label # summaries[m].label
        /\ AllCallsSucceeded =>
              \A k \in 1..Len(summaries) :
                  IF WordsIn(k - 1) > 20 THEN summaries[k].value \in SummaryTexts
                  ELSE summaries[k].value = TooShort

\* three "Section N" headings after newlines, bodies of 25 words, an empty text
\* before the first: four entries, the first one the placeholder
C8_Witness ==
    /\ pc = "done"
    /\ Cardinality(NewlineHeadings(text)) = 3
    /\ LineStartSections(text) = LineStartHeadings(text)
    /\ \A q \in LineStartHeadings(text) : BodyWords(text, q) >= 25
    /\ AllCallsSucceeded
    /\ Len(summaries) = 4
    /\ summaries[1].value = TooShort
    /\ summaries[4].label = <<"S", "e", "c", "t", "i", "o", "n", " ", "4">>

\* C7: the sections of re.split do not overlap and, joined in order with the
\* removed newline, give back the text; a text without a newline-heading match
\* gives exactly one section, the text itself.
C7_SplitReconstructs ==
    pc = "loop" =>
        /\ Join(sections, <<NL>>) = text
        /\ NewlineHeadings(text) = {} => sections = <<text>>
        /\ Len(sections) = Cardinality(NewlineHeadings(text)) + 1

\* a text split at two headings, with text before the first
C7_Witness ==
    /\ pc = "loop"
    /\ Len(sections) = 3
    /\ Len(sections[1]) > 0
    /\ Len(sections[2]) > 0

-----------------------------------------------------------------------------
(* Properties of the page *)

HasContext == \E e \in session_state : e[1] = "summary"
Context == (CHOOSE e \in session_state : e[1] = "summary")[2]

\* the inputs that hold a value
PopulatedTabs ==
    {t \in {"pdf", "docx", "youtube", "website"} :
        \/ t = "pdf" /\ uploaded_pdf.present
        \/ t = "docx" /\ uploaded_docx.present
        \/ t = "youtube" /\ youtube_link # <<>>
        \/ t = "website" /\ website_url # <<>>}

\* C4 as stated: a failure of any extraction adapter is turned into a string
\* returned in place of the text, so no run of the script is cut short: every
\* populated input has its adapter's string, and the run reaches the Summarize
\* and question sections.
C4_ExtractionFailuresContained ==
    /\ ~aborted
    /\ {extracted[k].tab : k \in 1..Len(extracted)} = PopulatedTabs

\* C5 as stated: a question asked while no summarization run has completed
\* gets an error surfaced to the user.
C5_PreconditionErrorSurfaced ==
    (last_action = "ask_denied" /\ ~HasContext)
        => \E m \in shown : m[1] \in {"error", "warning"}

\* C5 amended: while no summarization run has completed the page renders no
\* question form, so no question can be submitted and nothing is surfaced for
\* one; the question-answering capability is invoked only from that form, on
\* the existing SessionContext.
C5_NoFormWithoutContext ==
    /\ qa_rendered => HasContext
    /\ qa_call # NoCall =>
          /\ HasContext
          /\ qa_rendered
          /\ last_action = "answer"
          /\ qa_call.context = Context
    /\ last_action = "ask_denied" =>
          /\ ~qa_rendered
          /\ qa_call = NoCall
          /\ \A m \in shown : m[2] \notin {"Answer", "Please type your question."}

\* the user wants to ask before any summarization run: nothing is there
C5_Witness ==
    /\ last_action = "ask_denied"
    /\ ~HasContext
    /\ PopulatedTabs # {}
    /\ qa_call = NoCall

\* C6: a completed summarization run leaves as SessionContext exactly the
\* values of its own mapping, in order, joined by one space, placeholders
\* included; every other run (Summarize without text, an answer, a change of
\* input, a run cut short) leaves the session state as it was.
C6_ContextReplaced ==
    [][ /\ (last_action' = "summarize" /\ pc' = "done")
            => session_state' = {<<"summary", Join(Values(summaries'), <<" ">>)>>}
        /\ ~(last_action' = "summarize" /\ pc' = "done")
            => session_state' = session_state
        /\ (last_action' = "summarize" /\ ~aborted' /\ text' # <<>>) => pc' = "done"
      ]_vars

\* a run whose mapping holds the skip placeholder and an error placeholder: the
\* context is those two texts and one space between
C6_Witness ==
    /\ last_action = "summarize"
    /\ pc = "done"
    /\ Len(summaries) = 2
    /\ summaries[1].value = TooShort
    /\ summaries[2].value = <<"E", "r", "r", "o", "r", ":", " ", "b", "a", "d">>
    /\ Context = TooShort \o <<" ", "E", "r", "r", "o", "r", ":", " ", "b", "a", "d">>

\* C10 as stated: with more than one input populated, the text of a
\* summarization run is the text of the input the user set most recently.
C10_LastSetWins ==
    (last_action = "summarize" /\ pc = "done" /\ Len(set_order) > 1)
        => /\ Len(extracted) > 0
           /\ extracted[Len(extracted)].tab = set_order[Len(set_order)]
           /\ text = extracted[Len(extracted)].value

\* C10 amended: the text of a summarization run is the string returned by one
\* adapter, unmerged: that of the populated input whose tab comes last in the
\* fixed order PDF, DOCX, YouTube, Website, whatever the order of setting.
C10_LastTabWins ==
    (last_action = "summarize" /\ pc = "done")
        => LET winner == IF website_url # <<>> THEN "website"
                         ELSE IF youtube_link # <<>> THEN "youtube"
                         ELSE IF uploaded_docx.present THEN "docx"
                         ELSE "pdf"
           IN /\ winner \in PopulatedTabs
              /\ Len(extracted) = Cardinality(PopulatedTabs)
              /\ extracted[Len(extracted)].tab = winner
              /\ text = extracted[Len(extracted)].value
              /\ winner = "pdf" => text = ConcatTruthy(uploaded_pdf.items)
              /\ winner = "docx" => text = Join(uploaded_docx.items, <<NL>>)

\* the user set the website link first and uploaded the PDF last; the run
\* summarizes the website's text
C10_Witness ==
    /\ last_action = "summarize"
    /\ pc = "done"
    /\ set_order = <<"website", "pdf">>
    /\ extracted[Len(extracted)].tab = "website"
    /\ text = extracted[Len(extracted)].value
    /\ text[1] = "w"

=============================================================================
